---- MODULE Spec2Model ----
(***************************************************************************)
(* Model of the MindMap word-association game front end.                   *)
(*                                                                         *)
(*   GameScreen.tsx  the screen App.tsx mounts: session state, the timer   *)
(*                   effect, startGame, handleAddConnection, node clicks   *)
(*                   and the layout function assignPositionsToNodes.       *)
(*   Gameboard.tsx   the ReactFlow board with its own node/edge store,     *)
(*                   fed by InputForm (src/unnamed/part_000).              *)
(*   backend         backend/main.py is not part of the sources; the two   *)
(*                   endpoints GameScreen calls are modelled from the      *)
(*                   specification (sections 4.1, 4.2, 4.3 and 6).         *)
(*                                                                         *)
(* Words are sequences of one-character strings, so String.trim() and      *)
(* toLowerCase() are computed.  Coordinates are fixed-point numbers in     *)
(* thousandths of a pixel; cos and sin come from a table rounded to three  *)
(* decimals.  Time is in whole seconds.                                    *)
(***************************************************************************)
EXTENDS Integers, Sequences, FiniteSets, TLC

VARIABLES
    screen,             \* which top-level component the host renders
    \* ---- GameScreen.tsx state (useState hooks, lines 149-156)
    puzzleId,           \* the puzzleId prop
    gameState,          \* None or Some(GameState)
    selectedNodeId,     \* None or Some(id)
    newWord,            \* the text input's value
    error,              \* NoError or a message
    isLoading,
    timeLeft,           \* None or Some(seconds)
    hasLoaded,
    timerEffectPending, \* gameState changed and the timer effect has not re-run yet
    \* ---- the network and the backend
    inflight,           \* fetch() calls that have not settled yet
    nextRid,            \* number of fetch() calls issued so far
    games,              \* the backend's sessions, a sequence indexed by game_id
    now,                \* wall-clock time in seconds
    \* ---- Gameboard.tsx state and its InputForm
    startWord,          \* the startWord prop
    nodes,              \* ReactFlow nodes
    edges,              \* ReactFlow edges
    gbSelectedNodeId,   \* Gameboard's own selectedNodeId
    idCounter,          \* the module-level counter behind getNodeId
    moves,              \* the parent's move counter, changed through setMoves
    inputValue,         \* InputForm's text input
    \* ---- Timer.tsx props and state
    initialTimeSeconds, \* the initialTimeSeconds prop
    isRunning,          \* the isRunning prop
    timerTimeLeft,      \* Timer's own timeLeft state (line 10)
    intervalArmed,      \* the interval of line 27 is set and not cleared
    countdownEffectDue, \* a dependency of the effect of lines 17-41 changed
    onTimeUpCalls       \* calls of onTimeUp since timerTimeLeft was last set anew

gsVars == <<puzzleId, gameState, selectedNodeId, newWord, error, isLoading,
            timeLeft, hasLoaded, timerEffectPending, inflight, nextRid, games, now>>
gbVars == <<startWord, nodes, edges, gbSelectedNodeId, idCounter, moves, inputValue>>
tmVars == <<initialTimeSeconds, isRunning, timerTimeLeft, intervalArmed,
            countdownEffectDue, onTimeUpCalls>>
vars == <<screen, gsVars, gbVars, tmVars>>

----------------------------------------------------------------------------
\* Bounds of the model.

\* The clock runs from 1 to MaxTime.
MaxTime == 2
\* startGame is called at most MaxStarts times.
MaxStarts == 2
\* At most MaxFetches fetch() calls are issued in one run.
MaxFetches == 4
\* Gameboard: getNodeId is called at most MaxAdds times between two resets.
MaxAdds == 2
\* Gameboard: the moves counter is followed up to MaxMoves.
MaxMoves == 2
\* Layout: node sets of any shape have at most MaxNodes nodes.
MaxNodes == 3
\* Layout: trees grown node by node have a root with at most MaxSiblings children,
\* the first of which has at most MaxKids children.
MaxSiblings == 5
MaxKids == 6
\* Timer: the initialTimeSeconds prop is at most MaxInitial.
MaxInitial == 5
\* Timer: the props stop changing once onTimeUp was called MaxCalls times.
MaxCalls == 2
\* Time limits of the sessions the timer is followed on: 0 to MaxLimit seconds.
MaxLimit == 3

----------------------------------------------------------------------------
\* Optional values (T | null).

None == <<>>
Some(x) == <<x>>
IsSome(o) == o # <<>>
Val(o) == o[1]

NoError == "null"

----------------------------------------------------------------------------
\* Words.

IsSpace(c) == c = " "

\* String.prototype.trim
RECURSIVE TrimLeft(_)
TrimLeft(w) ==
    IF w # <<>> /\ IsSpace(Head(w)) THEN TrimLeft(Tail(w)) ELSE w

RECURSIVE TrimRight(_)
TrimRight(w) ==
    IF w # <<>> /\ IsSpace(w[Len(w)]) THEN TrimRight(SubSeq(w, 1, Len(w) - 1)) ELSE w

Trim(w) == TrimRight(TrimLeft(w))

\* String.prototype.toLowerCase on the model's alphabet
LowerChar(c) ==
    CASE c = "O" -> "o"
      [] c = "W" -> "w"
      [] c = "T" -> "t"
      [] OTHER -> c

Lower(w) == [i \in DOMAIN w |-> LowerChar(w[i])]

\* What a user types into a text input.
InputWords == { <<" ">>, <<"W", " ">>, <<"t">> }

----------------------------------------------------------------------------
\* Layout: assignPositionsToNodes (GameScreen.tsx lines 59-146).
\* A node is a record [id, word, parent_id, x, y]; the backend's nodes carry
\* no x and y.  A Record<string, node> is modelled as the sequence of its
\* values in insertion order, which is the order Object.values returns.

NODE_OFFSET_X == 100
NODE_OFFSET_Y == 50
NODE_AREA_WIDTH == 500
NODE_AREA_HEIGHT == 400

\* One pixel in the fixed-point representation of coordinates.
Px == 1000

\* 1000 * cos(pi * j / m) and 1000 * sin(pi * j / m), rounded, for 0 < j < m <= 8.
CosSinTable(j, m) ==
    CASE 2 * j = m          -> <<0, 1000>>
      [] 3 * j = m          -> <<500, 866>>
      [] 3 * j = 2 * m      -> <<-500, 866>>
      [] 4 * j = m          -> <<707, 707>>
      [] 4 * j = 3 * m      -> <<-707, 707>>
      [] 5 * j = m          -> <<809, 588>>
      [] 5 * j = 2 * m      -> <<309, 951>>
      [] 5 * j = 3 * m      -> <<-309, 951>>
      [] 5 * j = 4 * m      -> <<-809, 588>>
      [] 6 * j = m          -> <<866, 500>>
      [] 6 * j = 5 * m      -> <<-866, 500>>
      [] 7 * j = m          -> <<901, 434>>
      [] 7 * j = 2 * m      -> <<623, 782>>
      [] 7 * j = 3 * m      -> <<223, 975>>
      [] 7 * j = 4 * m      -> <<-223, 975>>
      [] 7 * j = 5 * m      -> <<-623, 782>>
      [] 7 * j = 6 * m      -> <<-901, 434>>
      [] 8 * j = m          -> <<924, 383>>
      [] 8 * j = 3 * m      -> <<383, 924>>
      [] 8 * j = 5 * m      -> <<-383, 924>>
      [] 8 * j = 7 * m      -> <<-924, 383>>

Cos1000(j, m) == CosSinTable(j, m)[1]
Sin1000(j, m) == CosSinTable(j, m)[2]

\* Math.random() * NODE_AREA_WIDTH and Math.random() * NODE_AREA_HEIGHT: the
\* outcomes the model distinguishes, as pairs of fixed-point coordinates.
RandomPlaces == { <<0, 0>>, <<125 * Px, 300 * Px>> }

Ids(ns) == {ns[i].id : i \in DOMAIN ns}

\* record[id], for an id that is a key
NodeById(ns, id) == ns[CHOOSE i \in DOMAIN ns : ns[i].id = id]

\* ExistingX without the lookup: the default only.
ExistingXIgnored(existingNodes, id, dflt) == dflt

\* existingNodes?.[id]?.x ?? dflt   (existingNodes undefined is the empty record)
ExistingX(existingNodes, id, dflt) ==
    IF id \in Ids(existingNodes) THEN NodeById(existingNodes, id).x ELSE dflt

ExistingY(existingNodes, id, dflt) ==
    IF id \in Ids(existingNodes) THEN NodeById(existingNodes, id).y ELSE dflt

WithPosition(node, x, y) ==
    [id |-> node.id, word |-> node.word, parent_id |-> node.parent_id, x |-> x, y |-> y]

\* ChildPosition with the previous coordinates ignored.
ChildPositionFresh(existingNodes, child, childX, childY) ==
    WithPosition(child, childX, childY)

\* lines 120-124: a child takes its previous coordinates if it has any.
ChildPosition(existingNodes, child, childX, childY) ==
    WithPosition(child, ExistingX(existingNodes, child.id, childX),
                        ExistingY(existingNodes, child.id, childY))

\* lines 72-86: no node without a parent_id
RECURSIVE NoRootFallback(_, _, _, _)
NoRootFallback(nodesToProcess, existingNodes, i, currentX) ==
    IF i > Len(nodesToProcess) THEN <<>>
    ELSE <<WithPosition(nodesToProcess[i],
                        ExistingX(existingNodes, nodesToProcess[i].id, currentX),
                        ExistingY(existingNodes, nodesToProcess[i].id, 50 * Px))>>
         \o NoRootFallback(nodesToProcess, existingNodes, i + 1, currentX + 100 * Px)

\* lines 106-129: the loop over the children of the node just dequeued.
\* st is [positioned, assigned, queue]; cur is the dequeued queue entry.
RECURSIVE PlaceChildren(_, _, _, _, _, _)
PlaceChildren(children, i, childIndex, cur, existingNodes, st) ==
    IF i > Len(children) THEN st
    ELSE IF children[i].id \in st.assigned
    THEN PlaceChildren(children, i + 1, childIndex, cur, existingNodes, st)
    ELSE
      LET child == children[i]
          childrenCount == Len(children)
          offsetX == (Cos1000(childIndex + 1, childrenCount + 1)
                        * NODE_OFFSET_X * (cur.depth + 1)) \div 2
          offsetY == (Sin1000(childIndex + 1, childrenCount + 1)
                        * NODE_OFFSET_Y * 3) \div 2
          childX == cur.parentX + offsetX
          childY == cur.parentY + offsetY
      IN PlaceChildren(children, i + 1, childIndex + 1, cur, existingNodes,
           [positioned |-> Append(st.positioned,
                                  ChildPosition(existingNodes, child, childX, childY)),
            assigned   |-> st.assigned \cup {child.id},
            queue      |-> Append(st.queue,
                                  [nodeId |-> child.id, parentX |-> childX,
                                   parentY |-> childY, depth |-> cur.depth + 1])])

\* lines 99-130: while (head < queue.length)
RECURSIVE BfsLoop(_, _, _, _)
BfsLoop(nodesToProcess, existingNodes, head, st) ==
    IF head > Len(st.queue) THEN st
    ELSE
      LET cur == st.queue[head]
          children == SelectSeq(nodesToProcess,
                                LAMBDA n : n.parent_id = Some(cur.nodeId))
      IN BfsLoop(nodesToProcess, existingNodes, head + 1,
                 PlaceChildren(children, 1, 0, cur, existingNodes, st))

\* nodesToProcess.find(n => !n.parent_id): index of the root, 0 when there is none.
\* A parent_id that is null, undefined or "" is falsy.
HasNoParent(n) == n.parent_id = None \/ n.parent_id = Some(<<>>)

RootIndex(nodesToProcess) ==
    IF \E i \in DOMAIN nodesToProcess : HasNoParent(nodesToProcess[i])
    THEN CHOOSE i \in DOMAIN nodesToProcess :
            /\ HasNoParent(nodesToProcess[i])
            /\ \A j \in 1..(i - 1) : ~HasNoParent(nodesToProcess[j])
    ELSE 0

\* lines 88-130: the traversal from the root, before the missed-node pass
Traverse(backendNodes, existingNodes) ==
    LET root == backendNodes[RootIndex(backendNodes)]
        rootX == (NODE_AREA_WIDTH * Px) \div 2
        rootY == 50 * Px
    IN BfsLoop(backendNodes, existingNodes, 1,
               [positioned |-> <<WithPosition(root, rootX, rootY)>>,
                assigned   |-> {root.id},
                queue      |-> <<[nodeId |-> root.id, parentX |-> rootX,
                                  parentY |-> rootY, depth |-> 0]>>])

\* Indices of the nodes the traversal does not reach (none when there is no root:
\* that case returns before the traversal).
Missed(backendNodes) ==
    IF RootIndex(backendNodes) = 0 THEN {}
    ELSE {i \in DOMAIN backendNodes :
            backendNodes[i].id \notin Traverse(backendNodes, <<>>).assigned}

\* PlaceMissed without the loop of lines 133-143.
PlaceMissedSkipped(nodesToProcess, existingNodes, random, i, positioned) ==
    positioned

\* lines 132-143: nodes missed by the traversal, placed with Math.random()
RECURSIVE PlaceMissed(_, _, _, _, _)
PlaceMissed(nodesToProcess, existingNodes, random, i, positioned) ==
    IF i > Len(nodesToProcess) THEN positioned
    ELSE IF nodesToProcess[i].id \in Ids(positioned)
    THEN PlaceMissed(nodesToProcess, existingNodes, random, i + 1, positioned)
    ELSE PlaceMissed(nodesToProcess, existingNodes, random, i + 1,
           Append(positioned,
                  WithPosition(nodesToProcess[i],
                      ExistingX(existingNodes, nodesToProcess[i].id, random[i][1]),
                      ExistingY(existingNodes, nodesToProcess[i].id, random[i][2]))))

\* assignPositionsToNodes(backendNodes, existingNodes); random[i] is what the two
\* Math.random() calls give for the i-th node, should the traversal miss it.
assignPositionsToNodes(backendNodes, existingNodes, random) ==
    IF RootIndex(backendNodes) = 0
    THEN NoRootFallback(backendNodes, existingNodes, 1, 50 * Px)
    ELSE PlaceMissed(backendNodes, existingNodes, random, 1,
                     Traverse(backendNodes, existingNodes).positioned)

\* The draws of Math.random() one call of assignPositionsToNodes can make.
RandomDraws(backendNodes) == [Missed(backendNodes) -> RandomPlaces]

----------------------------------------------------------------------------
\* The backend: POST /puzzles/{id}/start and POST /games/{id}/connect.
\* backend/main.py is not among the sources; this part follows the
\* specification: the data model of section 3, the Graph Store and Validator
\* contracts of sections 4.1 and 4.2 (checks in order, first failure wins), the
\* clock of section 4.3 and the interfaces of section 6.  The one reason the
\* front end reads is the detail "Time limit exceeded" (GameScreen.tsx line 248).

PuzzleIds == {"puzzle_daily_free", "puzzle_two"}

PuzzleStartWord(p) == IF p = "puzzle_daily_free" THEN <<"o">> ELSE <<"O">>

PuzzleTimeLimit(p) == 1

\* A new session: the root node, the clock started, active, nothing scored.
NewGame(id, p, t) ==
    [game_id            |-> id,
     puzzle_id          |-> p,
     start_word         |-> PuzzleStartWord(p),
     theme              |-> "theme",
     time_limit_seconds |-> PuzzleTimeLimit(p),
     start_time         |-> Some(t),
     nodes              |-> <<[id |-> Lower(PuzzleStartWord(p)),
                               word |-> PuzzleStartWord(p),
                               parent_id |-> None]>>,
     connections        |-> <<>>,
     score              |-> 0,
     is_active          |-> TRUE]

Response(ok, status, detail, state) ==
    [ok |-> ok, status |-> status, detail |-> detail, state |-> state]

NoResponse == Response(FALSE, 0, "", None)

Rejection(detail) == Response(FALSE, 400, detail, None)

\* section 4.3: expired once elapsed >= timeLimitSeconds
BackendExpired(g, t) ==
    ~g.is_active \/ t - Val(g.start_time) >= g.time_limit_seconds

\* section 4.2, checks 1 to 5: the reason of the first failing check, "" if none
Validate(g, t, parentId, word, related) ==
    IF BackendExpired(g, t) THEN "Time limit exceeded"
    ELSE IF parentId \notin Ids(g.nodes) THEN "UnknownParent"
    ELSE IF Trim(word) = <<>> THEN "EmptyWord"
    ELSE IF Lower(Trim(word)) \in Ids(g.nodes) THEN "DuplicateWord"
    ELSE IF ~related THEN "NotRelated"
    ELSE ""

\* sections 4.1 and 4.5: the session after an accepted connection
Accepted(g, parentId, word) ==
    [g EXCEPT !.nodes = Append(@, [id |-> Lower(Trim(word)),
                                   word |-> Trim(word),
                                   parent_id |-> Some(parentId)]),
              !.connections = Append(@, <<parentId, Lower(Trim(word))>>),
              !.score = @ + 1]

\* The session after a connect request, whatever its outcome.
BackendGameAfter(g, t, parentId, word, related) ==
    LET reason == Validate(g, t, parentId, word, related) IN
    IF reason = "" THEN Accepted(g, parentId, word)
    ELSE IF reason = "Time limit exceeded" THEN [g EXCEPT !.is_active = FALSE]
    ELSE g

BackendResponse(g, t, parentId, word, related) ==
    LET reason == Validate(g, t, parentId, word, related) IN
    IF reason = "" THEN Response(TRUE, 200, "", Some(Accepted(g, parentId, word)))
    ELSE Rejection(reason)

----------------------------------------------------------------------------
\* GameScreen.tsx

\* A fetch() that has not settled: the request, what the handler that awaits it
\* captured from its render (gameState.nodes for handleAddConnection), whether
\* the backend has handled it, and its response.
StartRequest(rid, p) ==
    [rid |-> rid, kind |-> "start", puzzle_id |-> p, game_id |-> 0,
     closureNodes |-> <<>>, parent_node_id |-> <<>>, new_word |-> <<>>,
     phase |-> "sent", resp |-> NoResponse]

ConnectRequest(rid, gs, parentId, word) ==
    [rid |-> rid, kind |-> "connect", puzzle_id |-> gs.puzzle_id,
     game_id |-> gs.game_id, closureNodes |-> gs.nodes,
     parent_node_id |-> parentId, new_word |-> word,
     phase |-> "sent", resp |-> NoResponse]

GuardMessage == "Cannot add connection: Game not active, no node selected, or word is empty."

NetworkMessage == "Failed to fetch"

\* line 160: the condition under which the timer effect arms the interval
TimerArmed(gs) ==
    /\ IsSome(gs)
    /\ Val(gs).is_active
    /\ IsSome(Val(gs).start_time) /\ Val(Val(gs).start_time) # 0
    /\ Val(gs).time_limit_seconds # 0

Max(a, b) == IF a >= b THEN a ELSE b

\* Remaining without Math.max(0, ...).
RemainingUnclamped(g, t) ==
    LET start == IF IsSome(g.start_time) /\ Val(g.start_time) # 0
                 THEN Val(g.start_time) ELSE t
    IN g.time_limit_seconds - (t - start)

\* lines 166-168: remaining, with gameState.start_time || now
Remaining(g, t) ==
    LET start == IF IsSome(g.start_time) /\ Val(g.start_time) # 0
                 THEN Val(g.start_time) ELSE t
    IN Max(0, g.time_limit_seconds - (t - start))

\* line 175: setGameState(prev => prev ? { ...prev, is_active: false } : null)
Deactivated(gs) ==
    IF IsSome(gs) THEN Some([Val(gs) EXCEPT !.is_active = FALSE]) ELSE None

\* lines 165-177: calculateTimeLeft, as called by the effect and by the interval.
\* The closure's gameState is the current one: the effect re-runs on every change.
calculateTimeLeft ==
    LET g == Val(gameState)
        remaining == Remaining(g, now)
    IN /\ timeLeft' = Some(remaining)
       /\ IF remaining <= 0 /\ g.is_active
          THEN gameState' = Deactivated(gameState) /\ timerEffectPending' = TRUE
          ELSE gameState' = gameState /\ timerEffectPending' = FALSE

\* lines 159-184: the effect body, run after a render in which gameState changed
RunTimerEffect ==
    /\ screen = "GameScreen"
    /\ timerEffectPending
    /\ IF TimerArmed(gameState)
       THEN calculateTimeLeft
       ELSE /\ timeLeft' = None
            /\ timerEffectPending' = FALSE
            /\ gameState' = gameState
    /\ UNCHANGED <<screen, puzzleId, selectedNodeId, newWord, error, isLoading,
                   hasLoaded, inflight, nextRid, games, now, gbVars, tmVars>>

\* line 180: the interval the effect armed fires
TimerTick ==
    /\ screen = "GameScreen"
    /\ ~timerEffectPending
    /\ TimerArmed(gameState)
    /\ calculateTimeLeft
    /\ UNCHANGED <<screen, puzzleId, selectedNodeId, newWord, error, isLoading,
                   hasLoaded, inflight, nextRid, games, now, gbVars, tmVars>>

\* A second passes.
AdvanceClock ==
    /\ screen = "GameScreen"
    /\ ~timerEffectPending
    /\ now < MaxTime
    /\ now' = now + 1
    /\ UNCHANGED <<screen, puzzleId, gameState, selectedNodeId, newWord, error,
                   isLoading, timeLeft, hasLoaded, timerEffectPending, inflight,
                   nextRid, games, gbVars, tmVars>>

\* Number of start requests issued so far: one per session or pending start.
StartsIssued == Len(games) + Cardinality({r \in inflight : r.kind = "start" /\ r.phase = "sent"})

\* lines 189-197 and 278-280: the puzzleId prop changes, the start effect calls
\* startGame, which runs up to its await.
StartGame(p) ==
    /\ screen = "GameScreen"
    /\ ~timerEffectPending
    /\ p # puzzleId
    /\ nextRid < MaxFetches
    /\ StartsIssued < MaxStarts
    /\ puzzleId' = p
    /\ isLoading' = TRUE
    /\ error' = NoError
    /\ gameState' = None
    /\ timerEffectPending' = IsSome(gameState)
    /\ hasLoaded' = FALSE
    /\ inflight' = inflight \cup {StartRequest(nextRid + 1, p)}
    /\ nextRid' = nextRid + 1
    /\ UNCHANGED <<screen, selectedNodeId, newWord, timeLeft, games, now, gbVars, tmVars>>

\* line 444: onChange of the text input, which is rendered while the game is
\* active (line 438)
SetNewWord(w) ==
    /\ screen = "GameScreen"
    /\ ~timerEffectPending
    /\ IsSome(gameState) /\ Val(gameState).is_active
    /\ IsSome(selectedNodeId) /\ ~isLoading
    /\ newWord' = w
    /\ UNCHANGED <<screen, puzzleId, gameState, selectedNodeId, error, isLoading,
                   timeLeft, hasLoaded, timerEffectPending, inflight, nextRid,
                   games, now, gbVars, tmVars>>

\* ClickNode without the test of is_active (line 339).
ClickNodeAlways(id) ==
    /\ screen = "GameScreen"
    /\ ~timerEffectPending
    /\ IsSome(gameState)
    /\ id \in Ids(Val(gameState).nodes)
    /\ selectedNodeId' = Some(id)
    /\ UNCHANGED <<screen, puzzleId, gameState, newWord, error, isLoading, timeLeft,
                   hasLoaded, timerEffectPending, inflight, nextRid, games, now, gbVars, tmVars>>

\* lines 337-346: onClick of a rendered node
ClickNode(id) ==
    /\ screen = "GameScreen"
    /\ ~timerEffectPending
    /\ IsSome(gameState)
    /\ id \in Ids(Val(gameState).nodes)
    /\ selectedNodeId' = IF Val(gameState).is_active THEN Some(id) ELSE selectedNodeId
    /\ UNCHANGED <<screen, puzzleId, gameState, newWord, error, isLoading, timeLeft,
                   hasLoaded, timerEffectPending, inflight, nextRid, games, now, gbVars, tmVars>>

\* GuardRejects with !newWord in place of !newWord.trim().
GuardRejectsUntrimmed ==
    \/ ~IsSome(gameState)
    \/ ~IsSome(selectedNodeId) \/ Val(selectedNodeId) = <<>>
    \/ newWord = <<>>
    \/ ~Val(gameState).is_active

\* line 227: !gameState || !selectedNodeId || !newWord.trim() || !gameState.is_active
GuardRejects ==
    \/ ~IsSome(gameState)
    \/ ~IsSome(selectedNodeId) \/ Val(selectedNodeId) = <<>>
    \/ Trim(newWord) = <<>>
    \/ ~Val(gameState).is_active

\* lines 225-243: handleAddConnection up to its await.  The handler guards itself,
\* so it is taken to be callable in every state.
HandleAddConnection ==
    /\ screen = "GameScreen"
    /\ ~timerEffectPending
    /\ IF GuardRejects
       THEN /\ error' = GuardMessage
            /\ UNCHANGED <<isLoading, inflight, nextRid>>
       ELSE /\ nextRid < MaxFetches
            /\ isLoading' = TRUE
            /\ error' = NoError
            /\ inflight' = inflight \cup
                 {ConnectRequest(nextRid + 1, Val(gameState), Val(selectedNodeId),
                                 Trim(newWord))}
            /\ nextRid' = nextRid + 1
    /\ UNCHANGED <<screen, puzzleId, gameState, selectedNodeId, newWord, timeLeft,
                   hasLoaded, timerEffectPending, games, now, gbVars, tmVars>>

Answered(r, resp) == [r EXCEPT !.phase = "answered", !.resp = resp]

\* The backend handles a request that reached it.
BackendHandle(r, related) ==
    /\ screen = "GameScreen"
    /\ ~timerEffectPending
    /\ r \in inflight /\ r.phase = "sent"
    /\ IF r.kind = "start"
       THEN LET g == NewGame(Len(games) + 1, r.puzzle_id, now) IN
            /\ related
            /\ games' = Append(games, g)
            /\ inflight' = (inflight \ {r}) \cup {Answered(r, Response(TRUE, 200, "", Some(g)))}
       ELSE LET g == games[r.game_id] IN
            /\ related \/ Validate(g, now, r.parent_node_id, r.new_word, TRUE) = ""
            /\ games' = [games EXCEPT ![r.game_id] =
                           BackendGameAfter(g, now, r.parent_node_id, r.new_word, related)]
            /\ inflight' = (inflight \ {r}) \cup
                 {Answered(r, BackendResponse(g, now, r.parent_node_id, r.new_word, related))}
    /\ UNCHANGED <<screen, puzzleId, gameState, selectedNodeId, newWord, error,
                   isLoading, timeLeft, hasLoaded, timerEffectPending, nextRid, now,
                   gbVars, tmVars>>

\* lines 207-210 and 259-262: { ...backendData, nodes: positionedNodes }
WithNodes(backendState, positionedNodes) ==
    [backendState EXCEPT !.nodes = positionedNodes]

\* lines 202-214 and 219-221: startGame after a response that is ok
StartResolved(r, random) ==
    LET backendData == Val(r.resp.state) IN
    /\ gameState' = Some(WithNodes(backendData,
                           assignPositionsToNodes(backendData.nodes, <<>>, random)))
    /\ timerEffectPending' = TRUE
    /\ selectedNodeId' = Some(backendData.start_word)
    /\ timeLeft' = Some(backendData.time_limit_seconds)
    /\ hasLoaded' = TRUE
    /\ isLoading' = FALSE
    /\ UNCHANGED <<newWord, error>>

\* line 200 and 251: errorData.detail || `HTTP error! status: ${response.status}`
ErrorMessage(resp) == IF resp.detail # "" THEN resp.detail ELSE "HTTP error"

\* RejectedGameState with setGameState(null) on "Time limit exceeded".
RejectedGameStateCleared(gs, resp) ==
    IF resp.status = 400 /\ resp.detail = "Time limit exceeded"
    THEN None
    ELSE gs

\* lines 245-252: what a response that is not ok does to gameState
RejectedGameState(gs, resp) ==
    IF resp.status = 400 /\ resp.detail = "Time limit exceeded"
    THEN Deactivated(gs)
    ELSE gs

\* lines 245-252 and 267-272: handleAddConnection after a response that is not ok
ConnectRejected(r) ==
    /\ gameState' = RejectedGameState(gameState, r.resp)
    /\ timerEffectPending' =
         (r.resp.status = 400 /\ r.resp.detail = "Time limit exceeded" /\ IsSome(gameState))
    /\ error' = ErrorMessage(r.resp)
    /\ isLoading' = FALSE
    /\ UNCHANGED <<selectedNodeId, newWord, timeLeft, hasLoaded>>

\* lines 254-264 and 270-272: handleAddConnection after a response that is ok
ConnectResolved(r, random) ==
    LET updatedBackendState == Val(r.resp.state) IN
    /\ gameState' = Some(WithNodes(updatedBackendState,
                           assignPositionsToNodes(updatedBackendState.nodes,
                                                  r.closureNodes, random)))
    /\ timerEffectPending' = TRUE
    /\ newWord' = <<>>
    /\ isLoading' = FALSE
    /\ UNCHANGED <<selectedNodeId, error, timeLeft, hasLoaded>>

\* A response arrives and the handler awaiting it runs to its end.
Deliver(r) ==
    /\ screen = "GameScreen"
    /\ ~timerEffectPending
    /\ r \in inflight /\ r.phase = "answered"
    /\ inflight' = inflight \ {r}
    /\ IF r.resp.ok
       THEN \E random \in RandomDraws(Val(r.resp.state).nodes) :
              IF r.kind = "start" THEN StartResolved(r, random)
              ELSE ConnectResolved(r, random)
       ELSE ConnectRejected(r)
    /\ UNCHANGED <<screen, puzzleId, nextRid, games, now, gbVars, tmVars>>

\* lines 215-221 and 267-272: fetch() rejects, the request never reached the backend
NetworkFailure(r) ==
    /\ screen = "GameScreen"
    /\ ~timerEffectPending
    /\ r \in inflight /\ r.phase = "sent"
    /\ inflight' = inflight \ {r}
    /\ error' = NetworkMessage
    /\ isLoading' = FALSE
    /\ hasLoaded' = IF r.kind = "start" THEN FALSE ELSE hasLoaded
    /\ UNCHANGED <<screen, puzzleId, gameState, selectedNodeId, newWord, timeLeft,
                   timerEffectPending, nextRid, games, now, gbVars, tmVars>>

----------------------------------------------------------------------------
\* Gameboard.tsx and InputForm (src/unnamed/part_000)
\* A ReactFlow node is [id, label, position]; an edge is [id, source, target].
\* Node ids are pairs: <<"StartNode", 0>> and <<"node", k>> for `node_${k}`.

StartNodeId == <<"StartNode", 0>>

\* startWord || 'Start'
StartLabel(w) == IF w = <<>> THEN <<"S", "t", "a", "r", "t">> ELSE w

\* lines 46-51 and 58-63
StartNodes(w) ==
    {[id |-> StartNodeId, label |-> StartLabel(w), position |-> <<250, 5>>]}

\* The startWord prop's values.
GbStartWords == { <<"o">>, <<>> }

\* What a user types into InputForm's text input.
GbInputWords == { <<" ">>, <<"w">>, <<"W", " ">> }

\* The board holds at most MaxEdges edges.
MaxEdges == 2

\* Math.random(), in halves: 0 stands for 0.0 and 1 for 0.5.
RandomHalves == {0, 1}

GbIds == {n.id : n \in nodes}

\* lines 106-110: the new node's position
NewNodePosition(parentNodeId, r1, r2) ==
    IF parentNodeId \in GbIds
    THEN LET parentNode == CHOOSE n \in nodes : n.id = parentNodeId
         IN <<parentNode.position[1] + (r1 * 200 - 200),
              parentNode.position[2] + 100 + r2 * 25>>
    ELSE <<100, 100>>

\* ResetBoard without setEdges([]) (line 64).
ResetBoardKeepsEdges(w) ==
    /\ screen = "Gameboard"
    /\ w # startWord
    /\ startWord' = w
    /\ idCounter' = 0
    /\ nodes' = StartNodes(w)
    /\ gbSelectedNodeId' = None
    /\ UNCHANGED <<edges, screen, moves, inputValue, gsVars, tmVars>>

\* lines 56-66: the startWord prop changes and the reset effect runs
ResetBoard(w) ==
    /\ screen = "Gameboard"
    /\ w # startWord
    /\ startWord' = w
    /\ idCounter' = 0
    /\ nodes' = StartNodes(w)
    /\ edges' = {}
    /\ gbSelectedNodeId' = None
    /\ UNCHANGED <<screen, moves, inputValue, gsVars, tmVars>>

\* lines 103-128: what handleAddNode does once onNodeAdded has returned true
AddNodeAccepted(newNodeLabel, parentNodeId, r1, r2) ==
    LET newNodeId == <<"node", idCounter + 1>> IN
    /\ idCounter < MaxAdds
    /\ moves < MaxMoves
    /\ Cardinality(edges) < MaxEdges
    /\ idCounter' = idCounter + 1
    /\ nodes' = nodes \cup {[id |-> newNodeId, label |-> newNodeLabel,
                             position |-> NewNodePosition(parentNodeId, r1, r2)]}
    /\ edges' = edges \cup {[id |-> <<"edge", parentNodeId, newNodeId>>,
                             source |-> parentNodeId, target |-> newNodeId]}
    /\ moves' = moves + 1

\* lines 99-137: handleAddNode; isValidConnection is what onNodeAdded returns
handleAddNode(newNodeLabel, parentNodeId, isValidConnection, r1, r2) ==
    IF isValidConnection
    THEN AddNodeAccepted(newNodeLabel, parentNodeId, r1, r2)
    ELSE r1 = 0 /\ r2 = 0 /\ UNCHANGED <<idCounter, nodes, edges, moves>>

\* part_000 line 30: onChange of the form's text input
SetInputValue(w) ==
    /\ screen = "Gameboard"
    /\ inputValue' = w
    /\ UNCHANGED <<screen, startWord, nodes, edges, gbSelectedNodeId, idCounter,
                   moves, gsVars, tmVars>>

\* part_000 line 13: !inputValue.trim() || !selectedNodeId
FormRejects(formSelectedNodeId) ==
    Trim(inputValue) = <<>> \/ ~IsSome(formSelectedNodeId)

\* Ids the host can hand to InputForm as selectedNodeId: none, a node of the
\* board, or an id that is not on the board (node_0: getNodeId starts at node_1).
FormSelections ==
    {None} \cup {Some(id) : id \in GbIds} \cup {Some(<<"node", 0>>)}

\* part_000 lines 11-18: handleSubmit, with onAddNode = handleAddNode
InputFormSubmit(formSelectedNodeId, isValidConnection, r1, r2) ==
    /\ screen = "Gameboard"
    /\ IF FormRejects(formSelectedNodeId)
       THEN /\ isValidConnection /\ r1 = 0 /\ r2 = 0
            /\ UNCHANGED <<idCounter, nodes, edges, moves, inputValue>>
       ELSE /\ handleAddNode(Trim(inputValue), Val(formSelectedNodeId),
                             isValidConnection, r1, r2)
            /\ inputValue' = <<>>
    /\ UNCHANGED <<screen, startWord, gbSelectedNodeId, gsVars, tmVars>>

\* lines 93-96: onConnect, with reactflow's addEdge: an edge for a connection that
\* is already there is not added again
OnConnect(source, target) ==
    /\ screen = "Gameboard"
    /\ source \in GbIds /\ target \in GbIds /\ source # target
    /\ Cardinality(edges) < MaxEdges
    /\ edges' = IF \E e \in edges : e.source = source /\ e.target = target
                THEN edges
                ELSE edges \cup {[id |-> <<"reactflow__edge", source, target>>,
                                  source |-> source, target |-> target]}
    /\ UNCHANGED <<screen, startWord, nodes, gbSelectedNodeId, idCounter, moves,
                   inputValue, gsVars, tmVars>>

\* lines 87-90: onEdgesChange with a change of type 'remove'
OnEdgesChangeRemove(id) ==
    /\ screen = "Gameboard"
    /\ id \in {e.id : e \in edges}
    /\ edges' = {e \in edges : e.id # id}
    /\ UNCHANGED <<screen, startWord, nodes, gbSelectedNodeId, idCounter, moves,
                   inputValue, gsVars, tmVars>>

\* lines 69-90: a node is deleted on the board.  ReactFlow reports it in one
\* batch: onEdgesChange with the removal of the edges connected to the node, and
\* onNodesChange with the removal of the node.
OnNodesChangeRemove(id) ==
    /\ screen = "Gameboard"
    /\ id \in GbIds
    /\ edges' = {e \in edges : e.source # id /\ e.target # id}
    /\ nodes' = {n \in nodes : n.id # id}
    /\ UNCHANGED <<screen, startWord, gbSelectedNodeId, idCounter, moves,
                   inputValue, gsVars, tmVars>>

\* lines 69-85: onNodesChange with a change of type 'select'
OnNodesChangeSelect(id, selected) ==
    /\ screen = "Gameboard"
    /\ id \in GbIds
    /\ gbSelectedNodeId' =
         IF selected THEN Some(id)
         ELSE IF gbSelectedNodeId = Some(id) THEN None
         ELSE gbSelectedNodeId
    /\ UNCHANGED <<screen, startWord, nodes, edges, idCounter, moves, inputValue,
                   gsVars, tmVars>>

----------------------------------------------------------------------------
\* The state after the host has mounted its screen.  GameScreen: the start
\* effect has called startGame, which is at its await (lines 189-197, 278-280).
\* Gameboard: the reset effect has run once (lines 46-66).

----------------------------------------------------------------------------
\* Timer.tsx: the countdown component.  Its parent owns the props; the model lets
\* them change at any time.  An effect runs after the render that changed one of
\* its dependencies, before the interval fires again.

\* Timer is not on the screen.
TimerUnmounted ==
    /\ initialTimeSeconds = 0
    /\ isRunning = FALSE
    /\ timerTimeLeft = 0
    /\ intervalArmed = FALSE
    /\ countdownEffectDue = FALSE
    /\ onTimeUpCalls = 0

\* lines 9-10: Timer is mounted; both effects are due.
TimerMounted ==
    /\ initialTimeSeconds \in 0..MaxInitial
    /\ isRunning \in BOOLEAN
    /\ timerTimeLeft = initialTimeSeconds
    /\ intervalArmed = FALSE
    /\ countdownEffectDue = TRUE
    /\ onTimeUpCalls = 0

\* lines 12-15: the initialTimeSeconds prop changes and the reset effect sets
\* timeLeft; a changed timeLeft makes the countdown effect due.
ChangeInitialTime(v) ==
    /\ screen = "Timer"
    /\ v # initialTimeSeconds
    /\ initialTimeSeconds' = v
    /\ timerTimeLeft' = v
    /\ countdownEffectDue' = (countdownEffectDue \/ v # timerTimeLeft)
    /\ onTimeUpCalls' = IF v # timerTimeLeft THEN 0 ELSE onTimeUpCalls
    /\ UNCHANGED <<screen, isRunning, intervalArmed, gsVars, gbVars>>

\* The parent changes the isRunning prop.
SetIsRunning(b) ==
    /\ screen = "Timer"
    /\ b # isRunning
    /\ onTimeUpCalls < MaxCalls
    /\ isRunning' = b
    /\ countdownEffectDue' = TRUE
    /\ UNCHANGED <<screen, initialTimeSeconds, timerTimeLeft, intervalArmed,
                   onTimeUpCalls, gsVars, gbVars>>

\* The parent renders with a new onTimeUp function (line 41: onTimeUp is a
\* dependency of the effect).
NewOnTimeUp ==
    /\ screen = "Timer"
    /\ ~countdownEffectDue
    /\ onTimeUpCalls < MaxCalls
    /\ countdownEffectDue' = TRUE
    /\ UNCHANGED <<screen, initialTimeSeconds, isRunning, timerTimeLeft, intervalArmed,
                   onTimeUpCalls, gsVars, gbVars>>

\* CountdownEffect without the test of isRunning before the interval is set.
CountdownEffectArmsPaused ==
    /\ screen = "Timer"
    /\ countdownEffectDue
    /\ countdownEffectDue' = FALSE
    /\ intervalArmed' = (timerTimeLeft > 0)
    /\ onTimeUpCalls' = IF timerTimeLeft <= 0 /\ isRunning
                        THEN onTimeUpCalls + 1 ELSE onTimeUpCalls
    /\ UNCHANGED <<screen, initialTimeSeconds, isRunning, timerTimeLeft, gsVars, gbVars>>

\* lines 17-41: the cleanup of the previous run clears its interval (line 40),
\* then the effect runs.
CountdownEffect ==
    /\ screen = "Timer"
    /\ countdownEffectDue
    /\ countdownEffectDue' = FALSE
    /\ IF ~isRunning \/ timerTimeLeft <= 0
       THEN /\ onTimeUpCalls' = IF timerTimeLeft <= 0 /\ isRunning
                                THEN onTimeUpCalls + 1 ELSE onTimeUpCalls
            /\ intervalArmed' = FALSE
       ELSE /\ intervalArmed' = TRUE
            /\ UNCHANGED onTimeUpCalls
    /\ UNCHANGED <<screen, initialTimeSeconds, isRunning, timerTimeLeft, gsVars, gbVars>>

\* lines 27-37: the interval fires and the updater of setTimeLeft runs.
IntervalTick ==
    /\ screen = "Timer"
    /\ intervalArmed
    /\ ~countdownEffectDue
    /\ LET newTime == timerTimeLeft - 1 IN
       IF newTime <= 0
       THEN /\ intervalArmed' = FALSE
            /\ onTimeUpCalls' = onTimeUpCalls + 1
            /\ timerTimeLeft' = 0
       ELSE /\ timerTimeLeft' = newTime
            /\ UNCHANGED <<intervalArmed, onTimeUpCalls>>
    /\ countdownEffectDue' = TRUE
    /\ UNCHANGED <<screen, initialTimeSeconds, isRunning, gsVars, gbVars>>

InitGameScreen ==
    /\ puzzleId = "puzzle_daily_free"
    /\ gameState = None
    /\ selectedNodeId = None
    /\ newWord = <<>>
    /\ error = NoError
    /\ isLoading = TRUE
    /\ timeLeft = None
    /\ hasLoaded = FALSE
    /\ timerEffectPending = FALSE
    /\ inflight = {StartRequest(1, "puzzle_daily_free")}
    /\ nextRid = 1
    /\ games = <<>>
    /\ now = 1

InitGameboard ==
    /\ startWord = <<"o">>
    /\ nodes = StartNodes(<<"o">>)
    /\ edges = {}
    /\ gbSelectedNodeId = None
    /\ idCounter = 0
    /\ moves = 0
    /\ inputValue = <<>>

Init ==
    /\ screen \in {"GameScreen", "Gameboard"}
    /\ InitGameScreen
    /\ InitGameboard
    /\ TimerUnmounted

InitScreen == Init /\ screen = "GameScreen"

InitBoard == Init /\ screen = "Gameboard"

NextGameScreen ==
    \/ RunTimerEffect
    \/ TimerTick
    \/ AdvanceClock
    \/ \E p \in PuzzleIds : StartGame(p)
    \/ \E w \in InputWords : SetNewWord(w)
    \/ \E id \in Ids(IF IsSome(gameState) THEN Val(gameState).nodes ELSE <<>>) : ClickNode(id)
    \/ HandleAddConnection
    \/ \E r \in inflight, related \in BOOLEAN : BackendHandle(r, related)
    \/ \E r \in inflight : Deliver(r)
    \/ \E r \in inflight : NetworkFailure(r)

NextGameboard ==
    \/ \E w \in GbStartWords : ResetBoard(w)
    \/ \E w \in GbInputWords : SetInputValue(w)
    \/ \E sel \in FormSelections, ok \in BOOLEAN, r \in RandomHalves :
          InputFormSubmit(sel, ok, r, r)
    \/ \E s \in GbIds, t \in GbIds : OnConnect(s, t)
    \/ \E id \in {e.id : e \in edges} : OnEdgesChangeRemove(id)
    \/ \E id \in GbIds : OnNodesChangeRemove(id)
    \/ \E id \in GbIds, sel \in BOOLEAN : OnNodesChangeSelect(id, sel)

Next == NextGameScreen \/ NextGameboard

\* Either screen.
Spec == Init /\ [][Next]_vars

\* The screen App.tsx mounts.
SpecGameScreen == InitScreen /\ [][NextGameScreen]_vars

\* The ReactFlow board.
SpecGameboard == InitBoard /\ [][NextGameboard]_vars

\* Timer.tsx mounted on its own.
InitCountdown ==
    /\ screen = "Timer"
    /\ InitGameScreen
    /\ InitGameboard
    /\ TimerMounted

NextCountdown ==
    \/ \E v \in 0..MaxInitial : ChangeInitialTime(v)
    \/ \E b \in BOOLEAN : SetIsRunning(b)
    \/ NewOnTimeUp
    \/ CountdownEffect
    \/ IntervalTick

SpecCountdown == InitCountdown /\ [][NextCountdown]_vars

----------------------------------------------------------------------------
\* The timer on its own: GameScreen right after startGame has stored a session
\* (lines 202-214), for every time limit and start time BackendGameState admits
\* (lines 33-44: time_limit_seconds: number, start_time?: number | null).

\* A start response's session with the given limit and start time.
SessionWith(limit, start) ==
    [NewGame(1, "puzzle_daily_free", 1) EXCEPT !.time_limit_seconds = limit,
                                               !.start_time = start]

TimerSessions ==
    {SessionWith(limit, start) :
        limit \in 0..MaxLimit,
        start \in {None} \cup {Some(t) : t \in 1..MaxTime}}

InitTimer ==
    /\ screen = "GameScreen"
    /\ InitGameboard
    /\ TimerUnmounted
    /\ puzzleId = "puzzle_daily_free"
    /\ \E g \in TimerSessions :
         /\ games = <<g>>
         /\ gameState = Some(WithNodes(g, assignPositionsToNodes(g.nodes, <<>>, <<>>)))
         /\ selectedNodeId = Some(g.start_word)
         /\ timeLeft = Some(g.time_limit_seconds)
         /\ now \in {t \in 1..MaxTime :
                       IsSome(g.start_time) => t >= Val(g.start_time)}
    /\ newWord = <<>>
    /\ error = NoError
    /\ isLoading = FALSE
    /\ hasLoaded = TRUE
    /\ timerEffectPending = TRUE
    /\ inflight = {}
    /\ nextRid = 1

\* The timer's steps, and the user typing while it runs.
NextTimer ==
    \/ RunTimerEffect
    \/ TimerTick
    \/ AdvanceClock
    \/ \E w \in InputWords : SetNewWord(w)

\* The timer effect and its interval.
SpecTimer == InitTimer /\ [][NextTimer]_vars

\* The same, with the effect run after every render, the interval firing as long
\* as it is armed, and time passing.
SpecTimerFair ==
    /\ SpecTimer
    /\ WF_vars(RunTimerEffect) /\ WF_vars(TimerTick) /\ WF_vars(AdvanceClock)

----------------------------------------------------------------------------
\* The layout on its own: GameScreen with one response on its way whose handler
\* will call assignPositionsToNodes (lines 205 and 257).  The node sets are the
\* values Record<string, BackendWordNode> admits (lines 27-31, 40): any parent_id,
\* so with or without a root and with nodes no parent link reaches.

\* The i-th node id: "n", "nn", "nnn", ...
Name(i) == [k \in 1..i |-> "n"]

\* parent_id: missing, empty, the id of a node of the set, or of none.
ParentChoices(n) ==
    {None, Some(<<>>), Some(<<"x">>)} \cup {Some(Name(i)) : i \in 1..n}

\* The node sets with n nodes, in insertion order.
NodeLists(n) ==
    {[i \in 1..n |-> [id |-> Name(i), word |-> Name(i), parent_id |-> parents[i]]] :
        parents \in [1..n -> ParentChoices(n)]}

\* A session grown one accepted connection at a time: the root, its first child,
\* siblings - 1 more children of the root, then kids children of the first child.
GrownTree(siblings, kids) ==
    [i \in 1..(1 + siblings + kids) |->
        [id |-> Name(i), word |-> Name(i),
         parent_id |-> IF i = 1 THEN None
                       ELSE IF i <= 1 + siblings THEN Some(Name(1))
                       ELSE Some(Name(2))]]

\* The positions a session has after its first k nodes were added one by one:
\* each accepted connection lays the nodes out with the previous positions
\* (lines 205, 257).  A tree leaves no node to Math.random().
RECURSIVE GrownLayout(_, _)
GrownLayout(tree, k) ==
    IF k = 1
    THEN assignPositionsToNodes(SubSeq(tree, 1, 1), <<>>, <<>>)
    ELSE LET existingNodes == GrownLayout(tree, k - 1) IN
         IF Len(existingNodes) = k - 1
         THEN assignPositionsToNodes(SubSeq(tree, 1, k), existingNodes, <<>>)
         ELSE <<>>

\* The session a response carries, with the given nodes.
SessionOf(backendNodes) ==
    [NewGame(1, "puzzle_daily_free", 1) EXCEPT
        !.nodes = backendNodes,
        !.connections = [i \in 1..(Len(backendNodes) - 1) |->
                            <<Val(backendNodes[i + 1].parent_id), backendNodes[i + 1].id>>],
        !.score = Len(backendNodes) - 1]

\* startGame awaits a response with any node set.
InitLayoutStart ==
    /\ \E n \in 0..MaxNodes : \E backendNodes \in NodeLists(n) :
         LET g == [NewGame(1, "puzzle_daily_free", 1) EXCEPT !.nodes = backendNodes] IN
         /\ games = <<g>>
         /\ inflight = {Answered(StartRequest(1, "puzzle_daily_free"),
                                 Response(TRUE, 200, "", Some(g)))}
    /\ gameState = None
    /\ selectedNodeId = None
    /\ timeLeft = None
    /\ hasLoaded = FALSE
    /\ nextRid = 1

\* handleAddConnection awaits the response to the connection that adds the last
\* node of a grown tree; its closure holds the positions of the nodes before.
InitLayoutConnect ==
    /\ \E siblings \in 1..MaxSiblings, kids \in 0..MaxKids :
         LET tree == GrownTree(siblings, kids)
             last == tree[Len(tree)]
             before == SessionOf(SubSeq(tree, 1, Len(tree) - 1))
             shown == WithNodes(before, GrownLayout(tree, Len(tree) - 1))
         IN /\ games = <<SessionOf(tree)>>
            /\ gameState = Some(shown)
            /\ selectedNodeId = last.parent_id
            /\ inflight = {Answered(ConnectRequest(2, shown, Val(last.parent_id), last.word),
                                    Response(TRUE, 200, "", Some(SessionOf(tree))))}
    /\ timeLeft = Some(1)
    /\ hasLoaded = TRUE
    /\ nextRid = 2

InitLayout ==
    /\ screen = "GameScreen"
    /\ InitGameboard
    /\ TimerUnmounted
    /\ puzzleId = "puzzle_daily_free"
    /\ newWord = <<>>
    /\ error = NoError
    /\ isLoading = TRUE
    /\ timerEffectPending = FALSE
    /\ now = 1
    /\ InitLayoutStart \/ InitLayoutConnect

\* The response arrives, the handler lays the nodes out and stores them, and the
\* timer effect runs on the new session.
NextLayout ==
    \/ \E r \in inflight : Deliver(r)
    \/ RunTimerEffect

SpecLayout == InitLayout /\ [][NextLayout]_vars

----------------------------------------------------------------------------
\* Properties.

\* Gameboard: the sources of the edges that end in a node.
Parents(id) == {e \in edges : e.target = id}

\* C1: the node/edge set of the board is a single rooted tree: exactly one node
\* has no parent, every other node has exactly one parent and that parent is a
\* node, and no node id appears twice.
C1_SingleRootedTree ==
    screen = "Gameboard" =>
      /\ Cardinality({n \in nodes : Parents(n.id) = {}}) = 1
      /\ \A n \in nodes :
           Parents(n.id) # {} =>
             /\ Cardinality(Parents(n.id)) = 1
             /\ \A e \in Parents(n.id) : e.source \in GbIds
      /\ \A m \in nodes, n \in nodes : m.id = n.id => m = n

SameSession ==
    /\ IsSome(gameState) /\ IsSome(gameState')
    /\ Val(gameState).game_id = Val(gameState').game_id

\* C2: within one session is_active never changes from false back to true (so
\* it changes from true to false at most once).
C2_ActiveOneWay ==
    [][(SameSession /\ ~Val(gameState).is_active) => ~Val(gameState').is_active]_vars

\* C3: once is_active is false, the session's nodes, connections and score never
\* change again; a connect response that arrives afterwards is not applied.
C3_FrozenOnceInactive ==
    [][(SameSession /\ ~Val(gameState).is_active) =>
          /\ Val(gameState').nodes = Val(gameState).nodes
          /\ Val(gameState').connections = Val(gameState).connections
          /\ Val(gameState').score = Val(gameState).score]_vars

\* A response is settled in this step: its request leaves the outstanding ones.
Settles(r) == r \in inflight /\ r.phase = "answered" /\ r \notin inflight'

\* A response that belongs to a session or start request that has been replaced.
Superseded(r) ==
    \/ r.kind = "start" /\ r.puzzle_id # puzzleId
    \/ r.kind = "connect" /\ IsSome(gameState) /\ Val(gameState).game_id # r.game_id

\* C4: a response that belongs to a previous session, or to a superseded start
\* request, is discarded when it arrives: it leaves the current session as it is.
C4_StaleResponseDiscarded ==
    [][\A r \in inflight : (Settles(r) /\ Superseded(r)) => gameState' = gameState]_vars

NormalizedLabel(n) == Lower(Trim(n.label))

\* C6: a word whose case-normalized form is already a node of the session is
\* rejected: no step adds a node whose normalized word the board already holds.
C6_DuplicateWordRejected ==
    [][(screen = "Gameboard" /\ startWord' = startWord) =>
          \A n \in nodes' \ nodes :
             NormalizedLabel(n) \notin {NormalizedLabel(m) : m \in nodes}]_vars

\* C7: an add-node call whose parentId is not the id of a node of the session
\* adds neither a node nor an edge: every edge a step adds starts at a node.
C7_UnknownParentRejected ==
    [][(screen = "Gameboard" /\ startWord' = startWord) =>
          \A e \in edges' \ edges : e.source \in GbIds]_vars

\* C8: a proposal whose word is empty after trimming is never submitted: the
\* GameScreen handler issues no request and leaves the session and the backend
\* as they are; InputForm's handler adds no node or edge and no move.
C8_EmptyWordNotSubmitted ==
    [][/\ (HandleAddConnection /\ Trim(newWord) = <<>>) =>
             UNCHANGED <<gameState, inflight, games>>
       /\ \A sel \in FormSelections, ok \in BOOLEAN, r \in RandomHalves :
            (InputFormSubmit(sel, ok, r, r) /\ Trim(inputValue) = <<>>) =>
               UNCHANGED <<nodes, edges, idCounter, moves>>]_vars

\* C8, witness: the handler has refused a word of blanks, in a session that is
\* active and has a node selected.
C8_BlankRefused ==
    /\ screen = "GameScreen"
    /\ error = GuardMessage
    /\ IsSome(gameState) /\ Val(gameState).is_active
    /\ IsSome(selectedNodeId)
    /\ newWord # <<>> /\ Trim(newWord) = <<>>
    /\ inflight = {}

\* What a proposal may change of a session: nodes, connections and score.
SessionData(gs) ==
    IF IsSome(gs)
    THEN <<Val(gs).nodes, Val(gs).connections, Val(gs).score>>
    ELSE <<>>

\* A step in which a proposal is rejected: by the handler's guard, by a response
\* that is not ok, by a failed fetch, by InputForm's guard or by onNodeAdded.
RejectionStep ==
    \/ HandleAddConnection /\ GuardRejects
    \/ \E r \in inflight : r.kind = "connect" /\ ~r.resp.ok /\ Deliver(r)
    \/ \E r \in inflight : r.kind = "connect" /\ NetworkFailure(r)
    \/ \E sel \in FormSelections, ok \in BOOLEAN, r \in RandomHalves :
         /\ InputFormSubmit(sel, ok, r, r)
         /\ FormRejects(sel) \/ ~ok

\* C9: a rejected proposal changes nothing of the session: nodes, connections and
\* score (GameScreen) and nodes, edges and moves (Gameboard) stay as they were.
C9_RejectionChangesNothing ==
    [][RejectionStep =>
          /\ SessionData(gameState') = SessionData(gameState)
          /\ UNCHANGED <<nodes, edges, moves>>]_vars

\* C9, witness: a session with a connection in it has had a proposal turned down
\* by the backend.
C9_RejectionSeen ==
    /\ IsSome(gameState)
    /\ Len(Val(gameState).nodes) > 1
    /\ error \in {"Time limit exceeded", "UnknownParent", "DuplicateWord", "NotRelated"}

\* C10: the move count equals the number of connections accepted in the session,
\* which is the number of ids getNodeId has handed out since the board was reset.
C10_MovesCountAccepted ==
    screen = "Gameboard" => moves = idCounter

\* C11: within one session the score shown never decreases: an accepted move
\* does not lower it, and a rejected attempt and the expiry transition leave it
\* as it is.
C11_ScoreNeverDecreases ==
    [][SameSession => Val(gameState').score >= Val(gameState).score]_vars

\* Instants at which the remaining time is evaluated.
ClockRange == 0..(MaxTime + MaxLimit)

\* C12: the remaining time of a session is max(0, limit - (now - start)): never
\* negative, and not larger at a later instant than at an earlier one; the value
\* the timer shows is not negative either.
C12_RemainingTime ==
    /\ IsSome(timeLeft) => Val(timeLeft) >= 0
    /\ IsSome(gameState) =>
         LET g == Val(gameState) IN
         \A t1 \in ClockRange, t2 \in ClockRange :
            t1 <= t2 =>
              /\ Remaining(g, t2) >= 0
              /\ Remaining(g, t1) >= Remaining(g, t2)
              /\ (IsSome(g.start_time) /\ Val(g.start_time) # 0) =>
                   Remaining(g, t1) =
                     Max(0, g.time_limit_seconds - (t1 - Val(g.start_time)))

\* C12, witness: the interval has computed a remaining time of 0 for a session
\* whose limit is not 0, at an instant at which the limit has been used up.
C12_ClampedSeen ==
    /\ IsSome(gameState)
    /\ Val(gameState).time_limit_seconds > 0
    /\ IsSome(Val(gameState).start_time)
    /\ now - Val(Val(gameState).start_time) >= Val(gameState).time_limit_seconds
    /\ timeLeft = Some(0)

\* What calculateTimeLeft takes as elapsed: now - (start_time || now).
Elapsed(g, t) ==
    IF IsSome(g.start_time) /\ Val(g.start_time) # 0 THEN t - Val(g.start_time) ELSE 0

\* C13: an active session whose elapsed time has reached its time limit becomes
\* inactive eventually, whatever its time limit and start time are.
C13_ExpiryHappens ==
    [](( /\ IsSome(gameState)
         /\ Val(gameState).is_active
         /\ Elapsed(Val(gameState), now) >= Val(gameState).time_limit_seconds )
        => <>(IsSome(gameState) /\ ~Val(gameState).is_active))

\* The response that is on its way, and the call of assignPositionsToNodes its
\* handler makes when it arrives.
PendingLayouts == {r \in inflight : r.phase = "answered" /\ r.resp.ok}

\* C14: the layout gives every node of its input a position: the snapshot stored
\* has exactly the node ids of the response, each once, each with an x and a y
\* that are numbers, whatever the shape of the node set.
C14_LayoutTotal ==
    [][\A r \in inflight :
         (Settles(r) /\ r.resp.ok) =>
           /\ IsSome(gameState')
           /\ Ids(Val(gameState').nodes) = Ids(Val(r.resp.state).nodes)
           /\ Len(Val(gameState').nodes) = Len(Val(r.resp.state).nodes)
           /\ \A i \in DOMAIN Val(gameState').nodes :
                /\ Val(gameState').nodes[i].x \in Int
                /\ Val(gameState').nodes[i].y \in Int]_vars

\* C14, witness: a snapshot is stored in which a node that no parent link from
\* the root reaches has a position.
C14_UnreachablePlaced ==
    /\ IsSome(gameState)
    /\ inflight = {}
    /\ \E i \in DOMAIN Val(gameState).nodes :
         LET n == Val(gameState).nodes[i] IN
         /\ IsSome(n.parent_id)
         /\ Val(n.parent_id) \notin Ids(Val(gameState).nodes)
         /\ n.x \in Int /\ n.y \in Int
    /\ \E i \in DOMAIN Val(gameState).nodes : Val(gameState).nodes[i].parent_id = None

\* C15: the layout is deterministic: for the call a handler is about to make, any
\* two runs of assignPositionsToNodes on its node set and its existing positions
\* give every node the same position, also the nodes no parent link reaches.
C15_LayoutDeterministic ==
    \A r \in PendingLayouts :
       LET backendNodes == Val(r.resp.state).nodes IN
       \A d1 \in RandomDraws(backendNodes), d2 \in RandomDraws(backendNodes) :
          assignPositionsToNodes(backendNodes, r.closureNodes, d1)
            = assignPositionsToNodes(backendNodes, r.closureNodes, d2)

\* The children of a node, in the order of the response.
ChildrenOf(ns, id) == SelectSeq(ns, LAMBDA n : n.parent_id = Some(id))

\* The place of a node among the children of its parent, counted from 0.
ChildRank(ns, n) ==
    LET children == ChildrenOf(ns, Val(n.parent_id))
    IN (CHOOSE i \in DOMAIN children : children[i].id = n.id) - 1

\* The number of parent links from a node of a tree up to its root.
RECURSIVE DepthOf(_, _)
DepthOf(ns, id) ==
    IF HasNoParent(NodeById(ns, id)) THEN 0
    ELSE 1 + DepthOf(ns, Val(NodeById(ns, id).parent_id))

\* The fan-out offset of child k of n under a parent at depth d: the angle is
\* pi / (n + 1) * (k + 1).
FanOutX(k, n, d) == (Cos1000(k + 1, n + 1) * NODE_OFFSET_X * (d + 1)) \div 2
FanOutY(k, n) == (Sin1000(k + 1, n + 1) * NODE_OFFSET_Y * 3) \div 2

\* The nodes of a response form one tree: the traversal reaches all of them.
IsTree(ns) == RootIndex(ns) # 0 /\ Missed(ns) = {}

\* C16: when a layout of a tree is stored, every node that had no position before
\* is at the position its parent has in that same layout plus the fan-out offset
\* for its rank among the parent's children and the parent's depth, also when the
\* parent kept a position of its own.
C16_FreshNodeAtParentOffset ==
    [][\A r \in inflight :
         (Settles(r) /\ r.resp.ok /\ IsTree(Val(r.resp.state).nodes)
            /\ IsSome(gameState') /\ Ids(Val(gameState').nodes) = Ids(Val(r.resp.state).nodes))
         => LET ns == Val(gameState').nodes IN
            \A i \in DOMAIN ns :
               (ns[i].id \notin Ids(r.closureNodes) /\ ~HasNoParent(ns[i]))
               => LET parent == NodeById(ns, Val(ns[i].parent_id))
                      k == ChildRank(ns, ns[i])
                      n == Len(ChildrenOf(ns, parent.id))
                      d == DepthOf(ns, parent.id)
                  IN /\ ns[i].x = parent.x + FanOutX(k, n, d)
                     /\ ns[i].y = parent.y + FanOutY(k, n)]_vars

\* Three points on one line.
Colinear(a, b, c) == (b.x - a.x) * (c.y - a.y) = (c.x - a.x) * (b.y - a.y)

\* C17: in every stored layout of a tree, the children of one parent are at
\* pairwise distinct positions, each strictly below the parent, and three children
\* of the root are not on one line; whether the nodes came in one response or
\* were added one at a time.
C17_ChildrenFanOut ==
    (IsSome(gameState) /\ IsTree(Val(gameState).nodes))
    => LET ns == Val(gameState).nodes IN
       /\ \A i \in DOMAIN ns :
             ~HasNoParent(ns[i]) => ns[i].y > NodeById(ns, Val(ns[i].parent_id)).y
       /\ \A i \in DOMAIN ns, j \in DOMAIN ns :
             (i # j /\ ~HasNoParent(ns[i]) /\ ns[i].parent_id = ns[j].parent_id)
             => <<ns[i].x, ns[i].y>> # <<ns[j].x, ns[j].y>>
       /\ LET children == ChildrenOf(ns, ns[RootIndex(ns)].id) IN
          Len(children) = 3 => ~Colinear(children[1], children[2], children[3])

\* C18: the session stored when a start request succeeds has exactly one node,
\* which has no parent, no connections, and is active; and when the board is reset
\* for a new start word it is left with exactly one node, no edges and no
\* selection.
C18_FreshStart ==
    [][/\ \A r \in inflight :
            (Settles(r) /\ r.kind = "start" /\ r.resp.ok)
            => /\ IsSome(gameState')
               /\ Len(Val(gameState').nodes) = 1
               /\ HasNoParent(Val(gameState').nodes[1])
               /\ Val(gameState').connections = <<>>
               /\ Val(gameState').is_active
       /\ startWord' # startWord
            => /\ Cardinality(nodes') = 1
               /\ edges' = {}
               /\ gbSelectedNodeId' = None]_vars

\* A second session has just been started after a first one.
C18_Restarted ==
    /\ IsSome(gameState) /\ Val(gameState).game_id = 2
    /\ hasLoaded /\ ~isLoading
    /\ Len(Val(gameState).nodes) = 1
    /\ Len(games[1].nodes) > 1

\* The first check of the order session-active, parent-exists, non-empty word,
\* not-duplicate that the proposal about to be submitted fails; "" if it passes.
FirstFailingCheck ==
    LET g == Val(gameState) IN
    IF ~g.is_active THEN "SessionInactive"
    ELSE IF ~IsSome(selectedNodeId) \/ Val(selectedNodeId) \notin Ids(g.nodes)
    THEN "UnknownParent"
    ELSE IF Trim(newWord) = <<>> THEN "EmptyWord"
    ELSE IF Lower(Trim(newWord)) \in Ids(g.nodes) THEN "DuplicateWord"
    ELSE ""

\* The reasons a reported message names.
Reasons(message) ==
    IF message = GuardMessage THEN {"SessionInactive", "UnknownParent", "EmptyWord"}
    ELSE IF message = "Time limit exceeded" THEN {"SessionInactive"}
    ELSE IF message \in {"UnknownParent", "EmptyWord", "DuplicateWord"} THEN {message}
    ELSE {}

\* C19: when handleAddConnection refuses a proposal, the message it reports names
\* one reason, that of the first failing check in the order session-active,
\* parent-exists, non-empty word, not-duplicate: SessionInactive for an inactive
\* session, whatever the word and the selection.
C19_FirstFailingReason ==
    [][(IsSome(gameState) /\ GuardRejects /\ HandleAddConnection)
         => Reasons(error') = {FirstFailingCheck}]_vars

\* C20: onTimeUp is called once for a countdown that reaches zero while running:
\* every call happens while isRunning is true and is the first call since
\* timeLeft was last set anew.
C20_OnTimeUpOnce ==
    [][onTimeUpCalls' > onTimeUpCalls => (isRunning /\ onTimeUpCalls' = 1)]_vars

\* The connect requests of a session that have not settled yet.
OutstandingConnects(gid) == {r \in inflight : r.kind = "connect" /\ r.game_id = gid}

\* C21: at most one connect request is in flight for a session: the form, which
\* accepts a submission only while isLoading is false (lines 446 and 455), never
\* issues a request while an earlier one of the same session is outstanding.
C21_OneConnectInFlight ==
    [][(HandleAddConnection /\ ~GuardRejects /\ ~isLoading)
         => OutstandingConnects(Val(gameState).game_id) = {}]_vars

\* C22: whenever a session is loaded, selectedNodeId is null or the id of a node
\* of that session, also right after a start and after a session replaced another.
C22_SelectionInSession ==
    IsSome(gameState)
    => (selectedNodeId = None \/ Val(selectedNodeId) \in Ids(Val(gameState).nodes))

\* The position of every node of a layout, by id.
PositionsOf(ns) == {<<ns[i].id, ns[i].x, ns[i].y>> : i \in DOMAIN ns}

\* C23: the layout is idempotent: when a layout is stored, laying out the same
\* nodes again with the stored layout as existing positions returns the same
\* position for every node, whatever Math.random() gives in the second call.
C23_LayoutIdempotent ==
    [][\A r \in inflight :
         (Settles(r) /\ r.resp.ok)
         => /\ IsSome(gameState')
            /\ LET backendNodes == Val(r.resp.state).nodes
                   positionedNodes == Val(gameState').nodes
               IN \A random \in RandomDraws(backendNodes) :
                     PositionsOf(assignPositionsToNodes(backendNodes, positionedNodes, random))
                       = PositionsOf(positionedNodes)]_vars

\* C23, witness: a stored layout holds a node that Math.random() placed, at a
\* place a second draw need not give again.
C23_RandomPlaceStored ==
    /\ IsSome(gameState)
    /\ inflight = {}
    /\ LET ns == Val(gameState).nodes IN
       \E i \in Missed([k \in DOMAIN ns |->
                           [id |-> ns[k].id, word |-> ns[k].word,
                            parent_id |-> ns[k].parent_id]]) :
          ns[i].x = 125 * Px /\ ns[i].y = 300 * Px

\* C24: a start or connect request that completes, by a response that is ok, by
\* a rejection or by fetch() throwing, leaves isLoading false; and isLoading is
\* not false while a request is outstanding.
C24_LoadingFlag ==
    [][/\ (\E r \in inflight : \A q \in inflight' : q.rid # r.rid) => ~isLoading'
       /\ inflight # {} => isLoading
       /\ inflight' # {} => isLoading']_vars

\* Timer's timeLeft is within its range.
TimeLeftInRange(t, initial) == 0 <= t /\ t <= initial

C26_SelectionFrozenWhenInactive ==
    [][/\ \A id \in Ids(IF IsSome(gameState) THEN Val(gameState).nodes ELSE <<>>) :
            (ClickNode(id) /\ ~Val(gameState).is_active)
            => selectedNodeId' = selectedNodeId
       /\ selectedNodeId' # selectedNodeId
            => (IsSome(gameState') /\ Val(gameState').is_active)]_vars

\* C26, witness: an inactive session whose selection is a node other than the
\* root, which only a click selects, and that has other nodes to click on.
C26_InactiveWithClickedSelection ==
    /\ IsSome(gameState) /\ ~Val(gameState).is_active
    /\ ~timerEffectPending
    /\ IsSome(selectedNodeId)
    /\ \E i \in DOMAIN Val(gameState).nodes :
          /\ Val(gameState).nodes[i].id = Val(selectedNodeId)
          /\ ~HasNoParent(Val(gameState).nodes[i])

====
